---------------------------- MODULE Spec2Model ----------------------------
(***************************************************************************)
(* Table detection and rendering of claude-document-enhancer:              *)
(*   src/src/pdf-processor.js  PDFProcessor                                *)
(*   src/src/processor.js      DocumentProcessor                           *)
(*                                                                         *)
(* A JavaScript string is a sequence of one-character strings, so that     *)
(* trim, split, match and length are computed and not assumed.             *)
(***************************************************************************)
EXTENDS Integers, Sequences, FiniteSets, TLC

VARIABLES
    pc,                 \* position of the running operation
    line, verdict,      \* isTableRow: its argument and its return value
    proc, options, text, lines, i, currentTable, tables, textWithoutTables,
    inTable, fate, result, report,     \* segmentation and report assembly
    tableRows, maxCols, normalizedRows, colWidths, rendered,  \* rendering
    dom, htmlTables,    \* HTML extraction
    filePaths, results, environments, saveIndex, written   \* batch processing

rowVars == <<line, verdict>>
segVars == <<proc, options, text, lines, i, currentTable, tables,
             textWithoutTables, inTable, fate, result, report>>
fmtVars == <<tableRows, maxCols, normalizedRows, colWidths, rendered>>
htmlVars == <<dom, htmlTables>>
batchVars == <<filePaths, results, environments, saveIndex, written>>
vars == <<pc, rowVars, segVars, fmtVars, htmlVars, batchVars>>

-----------------------------------------------------------------------------
(* Bounds of the checked inputs.                                           *)

\* isTableRow is applied to every string of at most MaxLineLen characters.
MaxLineLen == 7
\* A document text has at most MaxLines lines.
MaxLines == 5
\* A rendered table has at most MaxRows rows of at most MaxCols cells each.
MaxRows == 2
MaxCols == 2
\* A parsed HTML document has at most MaxNodes table, tr, td and th elements.
MaxNodes == 6

-----------------------------------------------------------------------------
(* JavaScript string primitives.                                           *)

Max(a, b) == IF a >= b THEN a ELSE b

\* The characters the regular expression class \s matches (those of the
\* model's alphabet); String.prototype.trim strips the same class.
Whitespace == {" ", "\t", "\n"}

\* The characters the class \d matches.
Digits == {"0", "1", "2", "3", "4", "5", "6", "7", "8", "9"}

\* The length of the run of characters of `set` that starts at position p.
RECURSIVE RunLength(_, _, _)
RunLength(s, p, set) ==
    IF p > Len(s) \/ s[p] \notin set THEN 0
    ELSE 1 + RunLength(s, p + 1, set)

\* String.prototype.trim
RECURSIVE TrimEnd(_)
TrimEnd(s) ==
    IF s # <<>> /\ s[Len(s)] \in Whitespace
    THEN TrimEnd(SubSeq(s, 1, Len(s) - 1))
    ELSE s

trim(s) ==
    LET lead == RunLength(s, 1, Whitespace)
    IN  TrimEnd(SubSeq(s, lead + 1, Len(s)))

\* String.prototype.split(c) for a one-character separator c: the pieces
\* between the separators, empty pieces kept; the accumulator `cur` is the
\* piece being read.
RECURSIVE SplitChar(_, _, _, _)
SplitChar(s, p, c, cur) ==
    IF p > Len(s) THEN <<cur>>
    ELSE IF s[p] = c THEN <<cur>> \o SplitChar(s, p + 1, c, <<>>)
    ELSE SplitChar(s, p + 1, c, Append(cur, s[p]))

split(s, c) == SplitChar(s, 1, c, <<>>)

\* String.prototype.split(/\s{n,}/): the leftmost match at a position is the
\* whole whitespace run starting there when it has n or more characters.
RECURSIVE SplitRuns(_, _, _, _)
SplitRuns(s, p, n, cur) ==
    IF p > Len(s) THEN <<cur>>
    ELSE LET run == RunLength(s, p, Whitespace)
         IN  IF run >= n
             THEN <<cur>> \o SplitRuns(s, p + run, n, <<>>)
             ELSE SplitRuns(s, p + 1, n, Append(cur, s[p]))

splitWhitespaceRuns(s, n) == SplitRuns(s, 1, n, <<>>)

\* (s.match(/c/g) || []).length
RECURSIVE CountChar(_, _)
CountChar(s, c) ==
    IF s = <<>> THEN 0
    ELSE (IF Head(s) = c THEN 1 ELSE 0) + CountChar(Tail(s), c)

NonBlank(part) == trim(part) # <<>>
HasDigit(part) == \E k \in 1..Len(part) : part[k] \in Digits

\* Array.prototype.filter(part => part.trim())
RECURSIVE filterNonBlank(_)
filterNonBlank(arr) ==
    IF arr = <<>> THEN <<>>
    ELSE (IF NonBlank(Head(arr)) THEN <<Head(arr)>> ELSE <<>>)
         \o filterNonBlank(Tail(arr))

\* Array.prototype.reduce((sum, part) => sum + part.length, 0)
RECURSIVE SumLengths(_)
SumLengths(arr) ==
    IF arr = <<>> THEN 0 ELSE Len(Head(arr)) + SumLengths(Tail(arr))

\* Array.prototype.join(sep) on strings
RECURSIVE join(_, _)
join(arr, sep) ==
    IF arr = <<>> THEN <<>>
    ELSE IF Len(arr) = 1 THEN arr[1]
    ELSE arr[1] \o sep \o join(Tail(arr), sep)


-----------------------------------------------------------------------------
(* PDFProcessor.isTableRow                                                 *)

\* tabCount >= 2
TabThreshold == 2
\* split(/\s{2,}/)
GapWidth == 2
\* parts.length >= 3
MinParts == 3
\* averageLength < 20
MaxAverageLength == 20

rowParts(ln) == filterNonBlank(splitWhitespaceRuns(ln, GapWidth))

\* averageLength < 20, the mean being sum / parts.length with parts.length > 0
averageLengthBelow(parts, limit) == SumLengths(parts) < limit * Len(parts)

\* isTableRow asking for more than MinParts parts
isTableRowMoreParts(ln) ==
    IF trim(ln) = <<>> THEN FALSE
    ELSE IF CountChar(ln, "\t") >= TabThreshold THEN TRUE
    ELSE LET parts == rowParts(ln)
         IN  IF Len(parts) > MinParts
             THEN (\E k \in 1..Len(parts) : HasDigit(parts[k]))
                  /\ averageLengthBelow(parts, MaxAverageLength)
             ELSE FALSE

isTableRow(ln) ==
    IF trim(ln) = <<>> THEN FALSE
    ELSE IF CountChar(ln, "\t") >= TabThreshold THEN TRUE
    ELSE LET parts == rowParts(ln)
         IN  IF Len(parts) >= MinParts
             THEN (\E k \in 1..Len(parts) : HasDigit(parts[k]))
                  /\ averageLengthBelow(parts, MaxAverageLength)
             ELSE FALSE

-----------------------------------------------------------------------------
(* JavaScript values held in table cells: a string (its characters) or a   *)
(* number (with the characters String(n) gives it).                        *)

Str(chars) == [type |-> "string", value |-> chars]
Num(chars) == [type |-> "number", value |-> chars]

\* Array.prototype.map(cell => cell.trim()) giving string cells
trimAll(arr) == [k \in 1..Len(arr) |-> trim(arr[k])]
strCells(arr) == [k \in 1..Len(arr) |-> Str(arr[k])]

\* Array.prototype.filter(cell => cell)
RECURSIVE filterNonEmpty(_)
filterNonEmpty(arr) ==
    IF arr = <<>> THEN <<>>
    ELSE (IF Head(arr) # <<>> THEN <<Head(arr)>> ELSE <<>>)
         \o filterNonEmpty(Tail(arr))

-----------------------------------------------------------------------------
(* PDFProcessor.detectTables and PDFProcessor.parseTableRows               *)

\* currentTable.length >= 2
MinTableRows == 2

\* isTable accepting a candidate of a single line
isTableOfOneLine(candidate) == Len(candidate) >= MinTableRows - 1

isTable(candidate) == Len(candidate) >= MinTableRows

parseTableRow(ln) ==
    IF CountChar(ln, "\t") > 0
    THEN strCells(trimAll(split(ln, "\t")))
    ELSE strCells(filterNonEmpty(trimAll(splitWhitespaceRuns(ln, GapWidth))))

parseTableRows(tableLines) ==
    [k \in 1..Len(tableLines) |-> parseTableRow(tableLines[k])]

\* What became of each line read so far, by line number (bookkeeping that
\* the code does not keep): "accumulator" while the line is in currentTable,
\* then "table" or "discarded"; "residual" once appended to
\* textWithoutTables; "outside" and "norow" in detectTablesInText.
closeCandidate(f, kept) ==
    [k \in 1..Len(f) |->
        IF f[k] = "accumulator"
        THEN (IF kept THEN "table" ELSE "discarded")
        ELSE f[k]]

\* const lines = text.split('\n') and the initial values of the locals
DetectTablesBegin ==
    /\ pc = "start"
    /\ proc = "PDFProcessor"
    /\ options.extractTables
    /\ lines' = split(text, "\n")
    /\ i' = 0
    /\ tables' = <<>>
    /\ currentTable' = <<>>
    /\ textWithoutTables' = <<>>
    /\ inTable' = FALSE
    /\ fate' = <<>>
    /\ pc' = "detectTables"
    /\ UNCHANGED <<proc, options, text, result, report>>
    /\ UNCHANGED <<rowVars, fmtVars, htmlVars, batchVars>>

\* appendLine leaving the line out
skipLine(textSoFar, ln) == textSoFar

\* textWithoutTables += line + '\n'
appendLine(textSoFar, ln) == textSoFar \o ln \o <<"\n">>

\* One iteration of the for loop.
DetectTablesStep ==
    /\ pc = "detectTables"
    /\ i < Len(lines)
    /\ LET ln == trim(lines[i + 1])
           hasTableStructure == isTableRow(ln)
       IN  \/ /\ hasTableStructure /\ ~inTable
              /\ inTable' = TRUE
              /\ currentTable' = <<ln>>
              /\ fate' = Append(fate, "accumulator")
              /\ UNCHANGED <<tables, textWithoutTables>>
           \/ /\ hasTableStructure /\ inTable
              /\ currentTable' = Append(currentTable, ln)
              /\ fate' = Append(fate, "accumulator")
              /\ UNCHANGED <<inTable, tables, textWithoutTables>>
           \/ /\ inTable /\ ~hasTableStructure
              /\ tables' = IF isTable(currentTable)
                           THEN Append(tables, currentTable)
                           ELSE tables
              /\ currentTable' = <<>>
              /\ inTable' = FALSE
              /\ textWithoutTables' = appendLine(textWithoutTables, ln)
              /\ fate' = Append(closeCandidate(fate, isTable(currentTable)),
                                "residual")
           \/ /\ ~inTable /\ ~hasTableStructure
              /\ textWithoutTables' = appendLine(textWithoutTables, ln)
              /\ fate' = Append(fate, "residual")
              /\ UNCHANGED <<inTable, currentTable, tables>>
    /\ i' = i + 1
    /\ UNCHANGED <<pc, proc, options, text, lines, result, report>>
    /\ UNCHANGED <<rowVars, fmtVars, htmlVars, batchVars>>

\* residualText without the trim
residualTextUntrimmed(chars) == chars

\* textWithoutTables.trim() of the return statement
residualText(chars) == trim(chars)

\* The table at the end of the document and the return statement.
DetectTablesEnd ==
    /\ pc = "detectTables"
    /\ i = Len(lines)
    /\ LET kept == inTable /\ isTable(currentTable)
           all == IF kept THEN Append(tables, currentTable) ELSE tables
       IN  /\ tables' = all
           /\ fate' = closeCandidate(fate, kept)
           /\ result' = [tables |-> [k \in 1..Len(all) |-> parseTableRows(all[k])],
                         textWithoutTables |-> residualText(textWithoutTables)]
    /\ pc' = "detected"
    /\ UNCHANGED <<proc, options, text, lines, i, currentTable,
                   textWithoutTables, inTable, report>>
    /\ UNCHANGED <<rowVars, fmtVars, htmlVars, batchVars>>

-----------------------------------------------------------------------------
(* PDFProcessor.formatTable                                                *)

\* What a call gives back: a value, or an exception thrown to the caller.
Returned(v) == [threw |-> FALSE, value |-> v]
Thrown == [threw |-> TRUE, value |-> <<>>]

\* Math.max(a, b) with NaN, which a number cell's undefined .length gives.
NaN == -1
mathMax(a, b) == IF a = NaN \/ b = NaN THEN NaN ELSE Max(a, b)
cellLength(cell) == IF cell.type = "string" THEN Len(cell.value) ELSE NaN

\* the column count taken from the first row alone
firstRowLength(rows) == Len(rows[1])

\* Math.max(...tableRows.map(row => row.length))
RECURSIVE maxRowLength(_)
maxRowLength(rows) ==
    IF Len(rows) = 1 THEN Len(rows[1])
    ELSE Max(Len(rows[1]), maxRowLength(Tail(rows)))

\* while (paddedRow.length < maxCols) paddedRow.push('')
RECURSIVE padRow(_, _)
padRow(row, cols) ==
    IF Len(row) < cols THEN padRow(Append(row, Str(<<>>)), cols) ELSE row

padRows(rows, cols) == [r \in 1..Len(rows) |-> padRow(rows[r], cols)]

\* colWidths[c] after the forEach over the first n rows
RECURSIVE columnWidth(_, _, _)
columnWidth(rows, n, c) ==
    IF n = 0 THEN 0
    ELSE mathMax(columnWidth(rows, n - 1, c), cellLength(rows[n][c]))

\* the column widths taken from the header row alone
headerWidths(rows, cols) == [c \in 1..cols |-> cellLength(rows[1][c])]

columnWidths(rows, cols) ==
    [c \in 1..cols |-> columnWidth(rows, Len(rows), c)]

\* String.prototype.repeat(n); a NaN count is taken as 0
repeat(c, n) == [k \in 1..(IF n = NaN THEN 0 ELSE n) |-> c]

\* String.prototype.padEnd(width)
padEnd(chars, width) ==
    IF width = NaN \/ Len(chars) >= width THEN chars
    ELSE chars \o repeat(" ", width - Len(chars))

\* The box-drawing glyphs, each one UTF-16 code unit, named by code point.
boxHorizontal == "U+2500"
boxVertical == "U+2502"
boxTopLeft == "U+250C"
boxTopJoin == "U+252C"
boxTopRight == "U+2510"
boxLeftJoin == "U+251C"
boxCross == "U+253C"
boxRightJoin == "U+2524"
boxBottomLeft == "U+2514"
boxBottomJoin == "U+2534"
boxBottomRight == "U+2518"

\* left + colWidths.map(width => H.repeat(width + 2)).join(mid) + right
borderLine(left, mid, right, widths) ==
    <<left>>
    \o join([c \in 1..Len(widths) |->
                repeat(boxHorizontal, IF widths[c] = NaN THEN NaN ELSE widths[c] + 2)],
            <<mid>>)
    \o <<right>>

\* V + row.map((cell, i) => ` ${cell.padEnd(colWidths[i])} `).join(V) + V
rowLine(row, widths) ==
    <<boxVertical>>
    \o join([c \in 1..Len(row) |->
                <<" ">> \o padEnd(row[c].value, widths[c]) \o <<" ">>],
            <<boxVertical>>)
    \o <<boxVertical>>

RECURSIVE dataLines(_, _, _)
dataLines(rows, r, widths) ==
    IF r > Len(rows) THEN <<>>
    ELSE rowLine(rows[r], widths) \o <<"\n">> \o dataLines(rows, r + 1, widths)

\* cell.padEnd is not a function of a cell that is no string: TypeError
allStrings(rows) ==
    \A r \in 1..Len(rows) : \A c \in 1..Len(rows[r]) :
        rows[r][c].type = "string"

\* The string built from line 180 on, for normalized rows and their widths.
gridText(rows, widths) ==
    borderLine(boxTopLeft, boxTopJoin, boxTopRight, widths) \o <<"\n">>
    \o rowLine(rows[1], widths) \o <<"\n">>
    \o (IF Len(rows) > 1
        THEN borderLine(boxLeftJoin, boxCross, boxRightJoin, widths) \o <<"\n">>
             \o dataLines(rows, 2, widths)
        ELSE <<>>)
    \o borderLine(boxBottomLeft, boxBottomJoin, boxBottomRight, widths)

formatTable(rows) ==
    IF rows = <<>> THEN Returned(<<>>)
    ELSE LET cols == maxRowLength(rows)
             normalized == padRows(rows, cols)
             widths == columnWidths(normalized, cols)
         IN  IF allStrings(normalized)
             THEN Returned(gridText(normalized, widths))
             ELSE Thrown

-----------------------------------------------------------------------------
(* PDFProcessor.enhanceText                                                *)

\* One piece of the report string, in the order of the += that appends it:
\* "metadata" the header block, "tables" the heading counting n tables,
\* "table" the heading of table n with its rendering, "content-heading"
\* the heading of the content section, "content" the body.
Part(kind, n, value) == [kind |-> kind, n |-> n, value |-> value]

RECURSIVE tableParts(_, _)
tableParts(renderings, k) ==
    IF k > Len(renderings) THEN <<>>
    ELSE <<Part("table", k, renderings[k].value)>>
         \o tableParts(renderings, k + 1)

enhanceTextWithTables(tablesData) ==
    LET renderings == [k \in 1..Len(tablesData.tables) |->
                          formatTable(tablesData.tables[k])]
    IN  IF \E k \in 1..Len(renderings) : renderings[k].threw
        THEN Thrown
        ELSE Returned(<<Part("metadata", 0, <<>>),
                        Part("tables", Len(renderings), <<>>)>>
                      \o tableParts(renderings, 1)
                      \o <<Part("content-heading", 0, <<>>),
                           Part("content", 0, tablesData.textWithoutTables)>>)

EnhanceText ==
    /\ proc = "PDFProcessor"
    /\ \/ /\ pc = "start"
          /\ ~options.extractTables
          /\ report' = Returned(<<Part("metadata", 0, <<>>),
                                  Part("content", 0, text)>>)
       \/ /\ pc = "detected"
          /\ report' = IF Len(result.tables) > 0
                       THEN enhanceTextWithTables(result)
                       ELSE Returned(<<Part("metadata", 0, <<>>),
                                       Part("content", 0, text)>>)
    /\ pc' = "done"
    /\ UNCHANGED <<proc, options, text, lines, i, currentTable, tables,
                   textWithoutTables, inTable, fate, result>>
    /\ UNCHANGED <<rowVars, fmtVars, htmlVars, batchVars>>

-----------------------------------------------------------------------------
(* DocumentProcessor.processPdf and DocumentProcessor.detectTablesInText   *)

\* /\s{3,}/
WideGap == 3
\* line.length > 10
MinLineLength == 10
\* cells.length > 1
MinCells == 1
\* currentTable.length > 1
MinRows == 1

\* /\s{3,}/.test(line)
hasMultipleSpaces(ln) ==
    \E p \in 1..Len(ln) : RunLength(ln, p, Whitespace) >= WideGap

\* /[\t|]/.test(line)
hasTabsOrPipes(ln) == \E p \in 1..Len(ln) : ln[p] \in {"\t", "|"}

\* line.split(/\s{3,}|\t+|\|+/): at each position the alternatives are tried
\* in order, each taking the whole run it matches.
RECURSIVE SplitCells(_, _, _)
SplitCells(s, p, cur) ==
    IF p > Len(s) THEN <<cur>>
    ELSE LET gap == RunLength(s, p, Whitespace)
             sep == IF gap >= WideGap THEN gap
                    ELSE IF s[p] = "\t" THEN RunLength(s, p, {"\t"})
                    ELSE IF s[p] = "|" THEN RunLength(s, p, {"|"})
                    ELSE 0
         IN  IF sep > 0
             THEN <<cur>> \o SplitCells(s, p + sep, <<>>)
             ELSE SplitCells(s, p + 1, Append(cur, s[p]))

splitCells(ln) == strCells(filterNonEmpty(trimAll(SplitCells(ln, 1, <<>>))))

isTableLike(ln) ==
    (hasMultipleSpaces(ln) \/ hasTabsOrPipes(ln)) /\ Len(ln) > MinLineLength

keepsCandidate(candidate) == Len(candidate) > MinRows

\* tables.push({index, rows, columns, data})
pushTable(tbls, candidate) ==
    Append(tbls, [index |-> Len(tbls) + 1,
                  rows |-> Len(candidate),
                  columns |-> maxRowLength(candidate),
                  data |-> candidate])

\* processPdf: the extracted text is kept whole; the tables are detected in
\* it when options.extractTables is set.
ProcessPdf ==
    /\ pc = "start"
    /\ proc = "DocumentProcessor"
    /\ \/ /\ options.extractTables
          /\ lines' = split(text, "\n")
          /\ i' = 0
          /\ tables' = <<>>
          /\ currentTable' = <<>>
          /\ inTable' = FALSE
          /\ fate' = <<>>
          /\ pc' = "detectTablesInText"
          /\ UNCHANGED result
       \/ /\ ~options.extractTables
          /\ result' = [tables |-> <<>>, extractedText |-> text]
          /\ pc' = "detected"
          /\ UNCHANGED <<lines, i, tables, currentTable, inTable, fate>>
    /\ UNCHANGED <<proc, options, text, textWithoutTables, report>>
    /\ UNCHANGED <<rowVars, fmtVars, htmlVars, batchVars>>

\* One iteration of the for loop of detectTablesInText.
DetectTablesInTextStep ==
    /\ pc = "detectTablesInText"
    /\ i < Len(lines)
    /\ LET ln == trim(lines[i + 1])
           cells == splitCells(ln)
       IN  \/ /\ isTableLike(ln)
              /\ inTable' = TRUE
              /\ currentTable' =
                    IF Len(cells) > MinCells
                    THEN Append(IF inTable THEN currentTable ELSE <<>>, cells)
                    ELSE (IF inTable THEN currentTable ELSE <<>>)
              /\ fate' = Append(fate, IF Len(cells) > MinCells
                                      THEN "accumulator" ELSE "norow")
              /\ UNCHANGED tables
           \/ /\ ~isTableLike(ln)
              /\ tables' = IF inTable /\ keepsCandidate(currentTable)
                           THEN pushTable(tables, currentTable)
                           ELSE tables
              /\ inTable' = FALSE
              /\ currentTable' = <<>>
              /\ fate' = Append(closeCandidate(fate,
                                    inTable /\ keepsCandidate(currentTable)),
                                "outside")
    /\ i' = i + 1
    /\ UNCHANGED <<pc, proc, options, text, lines, textWithoutTables,
                   result, report>>
    /\ UNCHANGED <<rowVars, fmtVars, htmlVars, batchVars>>

\* The table at the end of the document; processPdf stores the tables.
DetectTablesInTextEnd ==
    /\ pc = "detectTablesInText"
    /\ i = Len(lines)
    /\ LET kept == inTable /\ keepsCandidate(currentTable)
           all == IF kept THEN pushTable(tables, currentTable) ELSE tables
       IN  /\ tables' = all
           /\ fate' = closeCandidate(fate, kept)
           /\ result' = [tables |-> all, extractedText |-> text]
    /\ pc' = "detected"
    /\ UNCHANGED <<proc, options, text, lines, i, currentTable,
                   textWithoutTables, inTable, report>>
    /\ UNCHANGED <<rowVars, fmtVars, htmlVars, batchVars>>

-----------------------------------------------------------------------------
(* DocumentProcessor.formatForClaude                                       *)

\* table.data.map(row => row.join(' | ')).join('\n')
fallbackText(data) ==
    join([r \in 1..Len(data) |->
             join([c \in 1..Len(data[r]) |-> data[r][c].value],
                  <<" ", "|", " ">>)],
         <<"\n">>)

\* table(table.data, config) at line 308: inside the forEach callback of
\* line 280 the name `table` is the callback's parameter, a table record and
\* no function, so the call raises a TypeError whatever the data.
callTable(data) == Thrown

\* markdownTable(table.data): the markdown-table package, not part of this
\* repository; it returns its rendering or throws.
callMarkdownTable(data, libraryThrows) ==
    IF libraryThrows THEN Thrown ELSE Returned(<<"markdown-table">>)

\* The rendering of one table in the forEach callback of formatForClaude.
renderTable(data, outputFormat, libraryThrows) ==
    IF outputFormat = "markdown"
    THEN callMarkdownTable(data, libraryThrows)
    ELSE LET grid == callTable(data)
         IN  IF grid.threw THEN Returned(fallbackText(data)) ELSE grid

RECURSIVE docTableParts(_, _, _)
docTableParts(tbls, renderings, k) ==
    IF k > Len(tbls) THEN <<>>
    ELSE <<Part("table", tbls[k].index, renderings[k].value)>>
         \o docTableParts(tbls, renderings, k + 1)

formatForClaude(res, outputFormat, libraryThrows) ==
    LET renderings == [k \in 1..Len(res.tables) |->
                          renderTable(res.tables[k].data, outputFormat,
                                      libraryThrows)]
    IN  IF \E k \in 1..Len(renderings) : renderings[k].threw
        THEN Thrown
        ELSE Returned(
                <<Part("metadata", 0, <<>>)>>
                \o (IF Len(res.tables) > 0
                    THEN <<Part("tables", Len(res.tables), <<>>)>>
                         \o docTableParts(res.tables, renderings, 1)
                    ELSE <<>>)
                \o (IF res.extractedText # <<>>
                    THEN <<Part("content-heading", 0, <<>>),
                           Part("content", 0, res.extractedText)>>
                    ELSE <<>>))

FormatForClaude ==
    /\ pc = "detected"
    /\ proc = "DocumentProcessor"
    /\ \E libraryThrows \in BOOLEAN :
          report' = formatForClaude(result, options.outputFormat,
                                    libraryThrows)
    /\ pc' = "done"
    /\ UNCHANGED <<proc, options, text, lines, i, currentTable, tables,
                   textWithoutTables, inTable, fate, result>>
    /\ UNCHANGED <<rowVars, fmtVars, htmlVars, batchVars>>

-----------------------------------------------------------------------------
(* The document texts the segmenters are run on.                           *)

\* The lines a PDFProcessor text is made of: an empty line, indented prose,
\* a row of values two spaces apart, a row of tab-separated values with an
\* empty cell.
PdfLines ==
    { <<>>,
      <<" ", "a">>,
      <<"1", " ", " ", "a", " ", " ", "b">>,
      <<"a", "\t", "\t", "1", "\t", "b">> }

\* The lines a DocumentProcessor text is made of: indented prose, a row of
\* values three spaces apart, a line with a pipe and a single cell, a line
\* with a pipe that is too short.
DocLines ==
    { <<" ", "a">>,
      <<"Q", "1", " ", " ", " ", "1", " ", " ", " ", "a", "b", "c", "d">>,
      <<"a", "b", "c", "d", "e", "f", "g", "h", "i", "j", "|">>,
      <<"a", "|", "b">> }

Texts(sampleLines) ==
    { join(ls, <<"\n">>) :
        ls \in UNION { [1..n -> sampleLines] : n \in 1..MaxLines } }

\* "Q1   Revenue   100k   Growth\nQ2   Revenue   150k   Growth\n"
Gap3 == <<" ", " ", " ">>
Revenue == <<"R", "e", "v", "e", "n", "u", "e">>
Growth == <<"G", "r", "o", "w", "t", "h">>
QuarterlyText ==
    <<"Q", "1">> \o Gap3 \o Revenue \o Gap3 \o <<"1", "0", "0", "k">>
        \o Gap3 \o Growth \o <<"\n">>
    \o <<"Q", "2">> \o Gap3 \o Revenue \o Gap3 \o <<"1", "5", "0", "k">>
        \o Gap3 \o Growth \o <<"\n">>

\* "\t1\ta\tb\n1\ta\tb\t": two rows of tab-separated values, the first
\* starting and the second ending with a tab.
TabEdgedText ==
    <<"\t", "1", "\t", "a", "\t", "b", "\n",
      "1", "\t", "a", "\t", "b", "\t">>

IdleRow == line = <<>> /\ verdict = FALSE
IdleSeg ==
    /\ proc = "none" /\ options = [extractTables |-> TRUE,
                                   outputFormat |-> "enhanced-text"]
    /\ text = <<>> /\ lines = <<>> /\ i = 0 /\ currentTable = <<>>
    /\ tables = <<>> /\ textWithoutTables = <<>> /\ inTable = FALSE
    /\ fate = <<>> /\ result = [tables |-> <<>>] /\ report = Returned(<<>>)
IdleFmt ==
    /\ tableRows = <<>> /\ maxCols = 0 /\ normalizedRows = <<>>
    /\ colWidths = <<>> /\ rendered = Returned(<<>>)
IdleHtml == dom = <<>> /\ htmlTables = <<>>
IdleBatch ==
    /\ filePaths = <<>> /\ results = <<>> /\ environments = <<>>
    /\ saveIndex = 0 /\ written = <<>>

\* A processor constructed with its options and handed a document text.
Init ==
    /\ pc = "start"
    /\ proc \in {"PDFProcessor", "DocumentProcessor"}
    /\ text \in IF proc = "PDFProcessor"
                THEN Texts(PdfLines) \cup {QuarterlyText, TabEdgedText}
                ELSE Texts(DocLines)
    /\ options \in [extractTables : BOOLEAN,
                    outputFormat : IF proc = "PDFProcessor"
                                   THEN {"enhanced-text"}
                                   ELSE {"enhanced-text", "markdown"}]
    /\ lines = <<>> /\ i = 0 /\ currentTable = <<>>
    /\ tables = <<>> /\ textWithoutTables = <<>> /\ inTable = FALSE
    /\ fate = <<>> /\ result = [tables |-> <<>>] /\ report = Returned(<<>>)
    /\ IdleRow /\ IdleFmt /\ IdleHtml /\ IdleBatch

Next ==
    \/ DetectTablesBegin
    \/ DetectTablesStep
    \/ DetectTablesEnd
    \/ EnhanceText
    \/ ProcessPdf
    \/ DetectTablesInTextStep
    \/ DetectTablesInTextEnd
    \/ FormatForClaude

Spec == Init /\ [][Next]_vars

-----------------------------------------------------------------------------
(* isTableRow on its own: every string of at most MaxLineLen characters    *)
(* over a letter, a digit, a space and a tab, the spec's three examples,   *)
(* and lines whose parts have a mean length just below, at and above 20.   *)

RowAlphabet == {"a", "1", " ", "\t"}

Word(n) == [k \in 1..n |-> "a"]

LongLines ==
    { <<"1", " ", " ">> \o Word(n) \o <<" ", " ">> \o Word(29) : n \in 28..32 }

TabbedExample == <<"a", "\t", "b", "\t", "c">>
ShortLineExample == <<"s", "h", "o", "r", "t", " ", "l", "i", "n", "e">>

RowInputs ==
    UNION { [1..n -> RowAlphabet] : n \in 0..MaxLineLen }
    \cup LongLines \cup {TabbedExample, ShortLineExample}

InitRow ==
    /\ pc = "isTableRow"
    /\ line \in RowInputs
    /\ verdict = FALSE
    /\ IdleSeg /\ IdleFmt /\ IdleHtml /\ IdleBatch

IsTableRow ==
    /\ pc = "isTableRow"
    /\ verdict' = isTableRow(line)
    /\ pc' = "returned"
    /\ UNCHANGED <<line, segVars, fmtVars, htmlVars, batchVars>>

NextRow == IsTableRow

SpecRow == InitRow /\ [][NextRow]_vars

-----------------------------------------------------------------------------
(* Rendering on its own: PDFProcessor.formatTable, statement by statement, *)
(* and the forEach callback of DocumentProcessor.formatForClaude, on every *)
(* table of at most MaxRows rows of at most MaxCols cells.                 *)

CellValues == {Str(<<"a">>), Str(<<"b", "c">>), Num(<<"7">>)}

RenderRows == UNION { [1..n -> CellValues] : n \in 0..MaxCols }

RenderTables == UNION { [1..n -> RenderRows] : n \in 0..MaxRows }

InitRender ==
    /\ pc = "render"
    /\ proc \in {"PDFProcessor", "DocumentProcessor"}
    /\ options \in [extractTables : {TRUE},
                    outputFormat : IF proc = "PDFProcessor"
                                   THEN {"enhanced-text"}
                                   ELSE {"enhanced-text", "markdown"}]
    /\ tableRows \in RenderTables
    /\ maxCols = 0 /\ normalizedRows = <<>> /\ colWidths = <<>>
    /\ rendered = Returned(<<>>)
    /\ text = <<>> /\ lines = <<>> /\ i = 0 /\ currentTable = <<>>
    /\ tables = <<>> /\ textWithoutTables = <<>> /\ inTable = FALSE
    /\ fate = <<>> /\ result = [tables |-> <<>>] /\ report = Returned(<<>>)
    /\ IdleRow /\ IdleHtml /\ IdleBatch

\* formatTable, lines 157 to 169: the early return and the normalization
FormatTableNormalize ==
    /\ pc = "render"
    /\ proc = "PDFProcessor"
    /\ \/ /\ tableRows = <<>>
          /\ rendered' = Returned(<<>>)
          /\ pc' = "rendered"
          /\ UNCHANGED <<maxCols, normalizedRows>>
       \/ /\ tableRows # <<>>
          /\ maxCols' = maxRowLength(tableRows)
          /\ normalizedRows' = padRows(tableRows, maxRowLength(tableRows))
          /\ pc' = "normalized"
          /\ UNCHANGED rendered
    /\ UNCHANGED <<tableRows, colWidths, rowVars, segVars, htmlVars, batchVars>>

\* formatTable, lines 171 to 177: the column widths
FormatTableWidths ==
    /\ pc = "normalized"
    /\ colWidths' = columnWidths(normalizedRows, maxCols)
    /\ pc' = "measured"
    /\ UNCHANGED <<tableRows, maxCols, normalizedRows, rendered>>
    /\ UNCHANGED <<rowVars, segVars, htmlVars, batchVars>>

\* formatTable, lines 179 to 203: the grid, or the TypeError of padEnd
FormatTableEmit ==
    /\ pc = "measured"
    /\ rendered' = IF allStrings(normalizedRows)
                   THEN Returned(gridText(normalizedRows, colWidths))
                   ELSE Thrown
    /\ pc' = "rendered"
    /\ UNCHANGED <<tableRows, maxCols, normalizedRows, colWidths>>
    /\ UNCHANGED <<rowVars, segVars, htmlVars, batchVars>>

\* formatForClaude, lines 283 to 313: the rendering of one table
RenderTable ==
    /\ pc = "render"
    /\ proc = "DocumentProcessor"
    /\ \E libraryThrows \in BOOLEAN :
          rendered' = renderTable(tableRows, options.outputFormat,
                                  libraryThrows)
    /\ pc' = "rendered"
    /\ UNCHANGED <<tableRows, maxCols, normalizedRows, colWidths>>
    /\ UNCHANGED <<rowVars, segVars, htmlVars, batchVars>>

NextRender ==
    \/ FormatTableNormalize
    \/ FormatTableWidths
    \/ FormatTableEmit
    \/ RenderTable

SpecRender == InitRender /\ [][NextRender]_vars

-----------------------------------------------------------------------------
(* DocumentProcessor.extractTablesFromHtml                                 *)
(*                                                                         *)
(* The document cheerio.load gives is the sequence of its table, tr, td    *)
(* and th elements in document order, each with its parent element (0: no  *)
(* such element above it) and, for a cell, the text it holds itself.       *)

Element(tag, parent, chars) == [tag |-> tag, parent |-> parent, text |-> chars]

RECURSIVE isInside(_, _, _)
isInside(d, k, a) ==
    IF d[k].parent = 0 THEN FALSE
    ELSE d[k].parent = a \/ isInside(d, d[k].parent, a)

\* $(element).find(selector): the descendants of element a with one of the
\* tags, in document order
RECURSIVE find(_, _, _, _)
find(d, a, tags, k) ==
    IF k > Len(d) THEN <<>>
    ELSE (IF d[k].tag \in tags /\ isInside(d, k, a) THEN <<k>> ELSE <<>>)
         \o find(d, a, tags, k + 1)

\* $('table'): every table element of the document, in document order
RECURSIVE selectAll(_, _, _)
selectAll(d, tag, k) ==
    IF k > Len(d) THEN <<>>
    ELSE (IF d[k].tag = tag THEN <<k>> ELSE <<>>) \o selectAll(d, tag, k + 1)

\* $(cell).text(): the text of the element and of all its descendants
RECURSIVE textContent(_, _, _)
textContent(d, a, k) ==
    IF k > Len(d) THEN <<>>
    ELSE (IF k = a \/ isInside(d, k, a) THEN d[k].text ELSE <<>>)
         \o textContent(d, a, k + 1)

\* rowData of one tr element
rowData(d, row) ==
    LET cells == find(d, row, {"td", "th"}, 1)
    IN  [c \in 1..Len(cells) |-> Str(trim(textContent(d, cells[c], 1)))]

\* the array `table` of one table element: its rows that have cells
RECURSIVE rowsWithCells(_, _, _)
rowsWithCells(d, rows, r) ==
    IF r > Len(rows) THEN <<>>
    ELSE (IF Len(rowData(d, rows[r])) > 0
          THEN <<rowData(d, rows[r])>> ELSE <<>>)
         \o rowsWithCells(d, rows, r + 1)

\* the each() callback over the selected table elements, from the k-th on
RECURSIVE eachTable(_, _, _)
eachTable(d, selected, k) ==
    IF k > Len(selected) THEN <<>>
    ELSE LET data == rowsWithCells(d, find(d, selected[k], {"tr"}, 1), 1)
         IN  (IF Len(data) > 0
              THEN <<[index |-> k,
                      rows |-> Len(data),
                      columns |-> Len(data[1]),
                      data |-> data]>>
              ELSE <<>>)
             \o eachTable(d, selected, k + 1)

extractTablesFromHtml(d) == eachTable(d, selectAll(d, "table", 1), 1)

\* The elements above the last one, itself included: where the next element
\* in document order can be attached.
RECURSIVE openElements(_, _)
openElements(d, k) ==
    IF k = 0 THEN {0} ELSE {k} \cup openElements(d, d[k].parent)

tagOf(d, k) == IF k = 0 THEN "body" ELSE d[k].tag

\* A table stands in the body or in a cell, a row in a table, a cell in a row.
mayHold(parentTag, tag) ==
    \/ tag = "table" /\ parentTag \in {"body", "td", "th"}
    \/ tag = "tr" /\ parentTag = "table"
    \/ tag \in {"td", "th"} /\ parentTag = "tr"

CellTexts == { <<"a">>, <<" ", "b", " ">> }

\* A table of 2 rows and 3 columns, the first row of header cells.
TwoByThree ==
    << Element("table", 0, <<>>),
       Element("tr", 1, <<>>),
       Element("th", 2, <<"a">>),
       Element("th", 2, <<" ", "b", " ">>),
       Element("th", 2, <<"c">>),
       Element("tr", 1, <<>>),
       Element("td", 6, <<"1">>),
       Element("td", 6, <<"2">>),
       Element("td", 6, <<"3">>) >>

InitHtml ==
    /\ pc = "load"
    /\ dom \in {<<>>, TwoByThree}
    /\ htmlTables = <<>>
    /\ IdleRow /\ IdleSeg /\ IdleFmt /\ IdleBatch

\* cheerio.load(htmlContent): the next element of the markup
LoadElement ==
    /\ pc = "load"
    /\ Len(dom) < MaxNodes
    /\ \E tag \in {"table", "tr", "td", "th"} :
       \E parent \in openElements(dom, Len(dom)) :
       \E chars \in IF tag \in {"td", "th"} THEN CellTexts ELSE {<<>>} :
          /\ mayHold(tagOf(dom, parent), tag)
          /\ dom' = Append(dom, Element(tag, parent, chars))
    /\ UNCHANGED <<pc, htmlTables, rowVars, segVars, fmtVars, batchVars>>

ExtractTablesFromHtml ==
    /\ pc = "load"
    /\ htmlTables' = extractTablesFromHtml(dom)
    /\ pc' = "extracted"
    /\ UNCHANGED <<dom, rowVars, segVars, fmtVars, batchVars>>

NextHtml ==
    \/ LoadElement
    \/ ExtractTablesFromHtml

SpecHtml == InitHtml /\ [][NextHtml]_vars

-----------------------------------------------------------------------------
(* Properties of the segmentation and of the report (Spec).                *)

Segmented(p) ==
    /\ proc = p
    /\ options.extractTables
    /\ pc \in {"detected", "done"}

RECURSIVE flatten(_)
flatten(seqs) ==
    IF seqs = <<>> THEN <<>> ELSE Head(seqs) \o flatten(Tail(seqs))

\* l is a, and b, interleaved with the order of each kept
RECURSIVE isMerge(_, _, _)
isMerge(l, a, b) ==
    IF l = <<>> THEN a = <<>> /\ b = <<>>
    ELSE \/ a # <<>> /\ Head(a) = Head(l) /\ isMerge(Tail(l), Tail(a), b)
         \/ b # <<>> /\ Head(b) = Head(l) /\ isMerge(Tail(l), a, Tail(b))

\* The lines of the input whose fate is in `fates`, as they stand in the text.
RECURSIVE linesWithFate(_, _)
linesWithFate(fates, k) ==
    IF k > Len(lines) THEN <<>>
    ELSE (IF fate[k] \in fates THEN <<lines[k]>> ELSE <<>>)
         \o linesWithFate(fates, k + 1)

nonEmptyTrimmed(ls) == filterNonEmpty(trimAll(ls))

\* C1: for every input text, the lines absorbed into the tables detectTables
\* returns and the lines of its residual text, put back in their original
\* order, are the lines of the input, none lost and none twice.  Stated up to
\* the trimming of a line and without the empty lines, which the trim of the
\* residual text removes at its two ends.
C1_NoLineLostOrDuplicated ==
    Segmented("PDFProcessor") =>
        isMerge(nonEmptyTrimmed(lines),
                nonEmptyTrimmed(flatten(tables)),
                nonEmptyTrimmed(split(result.textWithoutTables, "\n")))

\* C2: every Table a segmenter holds or returns has at least 2 rows: the
\* candidates of detectTables kept in `tables` and their parsed rows, and the
\* records of detectTablesInText with their row counts.
C2_TablesHaveTwoRows ==
    /\ proc = "PDFProcessor" =>
          /\ \A k \in 1..Len(tables) : Len(tables[k]) >= 2
          /\ \A k \in 1..Len(result.tables) : Len(result.tables[k]) >= 2
    /\ proc = "DocumentProcessor" =>
          /\ \A k \in 1..Len(tables) :
                tables[k].rows >= 2 /\ Len(tables[k].data) >= 2
          /\ \A k \in 1..Len(result.tables) :
                result.tables[k].rows >= 2 /\ Len(result.tables[k].data) >= 2

\* A text with a table and with a single table-like line between lines that
\* are not table-like has been segmented.
C2_Witness ==
    /\ Segmented("PDFProcessor")
    /\ Len(result.tables) >= 1
    /\ \E k \in 2..(Len(fate) - 1) :
          /\ fate[k] = "discarded"
          /\ fate[k - 1] = "residual"
          /\ fate[k + 1] = "residual"

\* C4: segmenting "Q1   Revenue   100k   Growth\nQ2   Revenue   150k
\* Growth\n" gives exactly one Table, of 2 rows of 4 cells each, and an empty
\* residual text.
C4_QuarterlyTable ==
    (Segmented("PDFProcessor") /\ text = QuarterlyText) =>
        /\ Len(result.tables) = 1
        /\ Len(result.tables[1]) = 2
        /\ \A r \in 1..2 : Len(result.tables[1][r]) = 4
        /\ maxRowLength(result.tables[1]) = 4
        /\ result.textWithoutTables = <<>>

C4_Witness ==
    /\ Segmented("PDFProcessor")
    /\ text = QuarterlyText
    /\ pc = "done"
    /\ Len(result.tables) = 1

\* C5: the residual text of detectTables is the lines of the input that are
\* in no table, in their original order and each as it stands in the input
\* (not trimmed), joined by newlines.
C5_ResidualKeepsLines ==
    Segmented("PDFProcessor") =>
        result.textWithoutTables
            = join(linesWithFate({"residual", "discarded"}, 1), <<"\n">>)

\* The kinds of the parts of a report, in order.
kinds(parts) == [k \in 1..Len(parts) |-> parts[k].kind]

\* The body of the content section; none when the section is left out.
bodyOf(parts) ==
    IF parts # <<>> /\ parts[Len(parts)].kind = "content"
    THEN parts[Len(parts)].value
    ELSE <<>>

withoutHeading(ks) ==
    filterNonEmpty([k \in 1..Len(ks) |->
                      IF ks[k] = "content-heading" THEN <<>> ELSE <<ks[k]>>])

\* C9: the report is the metadata header, then the tables section, there iff
\* a table was found, then the content section; the body is the residual
\* text when the segmentation ran and found a table, and the whole text
\* otherwise.  For enhanceText the residual text is the one detectTables
\* returned; for formatForClaude, whose segmenter returns none, it is the
\* lines of the text that are in no table, compared trimmed and without
\* the empty ones.  A content section without a heading, or left out when
\* the body is empty, is accepted.
C9_ReportOrderAndBody ==
    (pc = "done" /\ ~report.threw) =>
        LET parts == report.value
            found == options.extractTables /\ Len(result.tables) > 0
            body == bodyOf(parts)
        IN  /\ withoutHeading(kinds(parts))
                 = <<<<"metadata">>>>
                   \o (IF found
                       THEN <<<<"tables">>>>
                            \o [k \in 1..Len(result.tables) |-> <<"table">>]
                       ELSE <<>>)
                   \o (IF parts[Len(parts)].kind = "content"
                       THEN <<<<"content">>>> ELSE <<>>)
            /\ parts[Len(parts)].kind # "content" => text = <<>>
            /\ ~found => body = text
            /\ (found /\ proc = "PDFProcessor") =>
                  body = result.textWithoutTables
            /\ (found /\ proc = "DocumentProcessor") =>
                  nonEmptyTrimmed(split(body, "\n"))
                     = nonEmptyTrimmed(
                          linesWithFate({"outside", "norow", "discarded"}, 1))

-----------------------------------------------------------------------------
(* Properties of isTableRow (SpecRow).                                     *)

\* Position p of s lies in a run of n or more characters of `seps`.
inGap(s, p, seps, n) ==
    \E a \in 1..p : \E b \in p..Len(s) :
        /\ b - a + 1 >= n
        /\ \A q \in a..b : s[q] \in seps

\* The rules of the row classifier, with the parts being the non-empty
\* fragments between the runs of 2 or more characters of `seps`: a fragment
\* starts at each position outside a gap that follows a gap or starts s.
rowRules(s, seps) ==
    LET kept == {p \in 1..Len(s) : ~inGap(s, p, seps, 2)}
        starts == {p \in kept : p = 1 \/ (p - 1) \notin kept}
    IN  IF \A p \in 1..Len(s) : s[p] \in Whitespace THEN FALSE
        ELSE IF Cardinality({p \in 1..Len(s) : s[p] = "\t"}) >= 2 THEN TRUE
        ELSE /\ Cardinality(starts) >= 3
             /\ \E p \in kept : s[p] \in Digits
             /\ Cardinality(kept) < 20 * Cardinality(starts)

rowExamples ==
    /\ line = TabbedExample => verdict = TRUE
    /\ line = ShortLineExample => verdict = FALSE
    /\ line = <<>> => verdict = FALSE

\* C3 as stated: isTableRow(line) is the result of the ordered rules with
\* the parts split on runs of 2 or more space characters, and the three
\* examples come out true, false and false.
C3_SpaceRunRules ==
    pc = "returned" =>
        /\ verdict = rowRules(line, {" "})
        /\ rowExamples

\* C3 as amended: the same with the parts split on runs of 2 or more
\* whitespace characters (the class \s: a space, a tab), so that a space
\* next to a tab separates two parts.
C3_WhitespaceRunRules ==
    pc = "returned" =>
        /\ verdict = rowRules(line, Whitespace)
        /\ rowExamples

\* A line with a single tab was classified as a table row because a space
\* and a tab together separate two of its parts.
C3_Witness ==
    /\ pc = "returned"
    /\ verdict = TRUE
    /\ CountChar(line, "\t") = 1
    /\ ~rowRules(line, {" "})

-----------------------------------------------------------------------------
(* Properties of the rendering (SpecRender).                               *)

\* C6: formatTable raises no exception on a table of string cells whose rows
\* have unequal lengths; after the normalization maxCols is the greatest row
\* length and every row has exactly maxCols cells: its own cells, unchanged
\* and in place, then empty strings.
C6_RowsPadded ==
    /\ (proc = "PDFProcessor" /\ pc \in {"normalized", "measured", "rendered"}
            /\ tableRows # <<>>) =>
          /\ Len(normalizedRows) = Len(tableRows)
          /\ \E r \in 1..Len(tableRows) : Len(tableRows[r]) = maxCols
          /\ \A r \in 1..Len(tableRows) :
                /\ Len(tableRows[r]) <= maxCols
                /\ Len(normalizedRows[r]) = maxCols
                /\ \A c \in 1..maxCols :
                      normalizedRows[r][c] = IF c <= Len(tableRows[r])
                                             THEN tableRows[r][c]
                                             ELSE Str(<<>>)
    /\ (proc = "PDFProcessor" /\ pc = "rendered" /\ allStrings(tableRows)) =>
          ~rendered.threw

\* A table of string cells with a row shorter than another was rendered.
C6_Witness ==
    /\ proc = "PDFProcessor"
    /\ pc = "rendered"
    /\ allStrings(tableRows)
    /\ ~rendered.threw
    /\ \E r1, r2 \in 1..Len(tableRows) : Len(tableRows[r1]) < Len(tableRows[r2])

\* C7: every line of the grid formatTable returns (top border, header row,
\* header separator, data rows, bottom border) is as long as the top border.
C7_GridLinesAligned ==
    (proc = "PDFProcessor" /\ pc = "rendered" /\ tableRows # <<>>
        /\ ~rendered.threw) =>
        LET out == split(rendered.value, "\n")
        IN  /\ out[1][1] = boxTopLeft
            /\ Len(out) = IF Len(tableRows) > 1
                          THEN Len(tableRows) + 3 ELSE 3
            /\ \A k \in 1..Len(out) : Len(out[k]) = Len(out[1])

\* A grid was rendered for a table whose header cell is shorter than the
\* cell below it.
C7_Witness ==
    /\ proc = "PDFProcessor"
    /\ pc = "rendered"
    /\ ~rendered.threw
    /\ Len(tableRows) >= 2
    /\ Len(tableRows[1]) >= 1 /\ Len(tableRows[2]) >= 1
    /\ Len(tableRows[1][1].value) < Len(tableRows[2][1].value)

\* C8: a render failure is never propagated: whatever the table, the
\* renderer returns, and where the grid could not be drawn it returns one
\* line per row, the cells joined by " | ".  Stated of the two renderers
\* whose failure this repository's code decides, formatTable and the
\* enhanced-text branch of formatForClaude; the markdown branch fails when
\* the markdown-table package does.
C8_RenderNeverThrows ==
    (pc = "rendered"
        /\ (proc = "PDFProcessor" \/ options.outputFormat = "enhanced-text")) =>
        /\ ~rendered.threw
        /\ (proc = "DocumentProcessor" \/ ~allStrings(tableRows)) =>
              rendered.value = fallbackText(tableRows)

-----------------------------------------------------------------------------
(* Properties of the HTML extraction (SpecHtml).                           *)

\* The elements with tag in `tags` whose parent is element a, in order.
RECURSIVE childrenOf(_, _, _, _)
childrenOf(d, a, tags, k) ==
    IF k > Len(d) THEN <<>>
    ELSE (IF d[k].tag \in tags /\ d[k].parent = a THEN <<k>> ELSE <<>>)
         \o childrenOf(d, a, tags, k + 1)

\* The rows of table element t itself that have cells, each as its cells.
RECURSIVE ownRows(_, _, _)
ownRows(d, rows, r) ==
    IF r > Len(rows) THEN <<>>
    ELSE LET cells == childrenOf(d, rows[r], {"td", "th"}, 1)
         IN  (IF cells # <<>> THEN <<cells>> ELSE <<>>)
             \o ownRows(d, rows, r + 1)

ownRowsOf(d, t) == ownRows(d, childrenOf(d, t, {"tr"}, 1), 1)

\* The top-level table elements that have a row, in document order.
RECURSIVE topLevelTables(_, _)
topLevelTables(d, k) ==
    IF k > Len(d) THEN <<>>
    ELSE (IF d[k].tag = "table" /\ d[k].parent = 0 /\ ownRowsOf(d, k) # <<>>
          THEN <<k>> ELSE <<>>)
         \o topLevelTables(d, k + 1)

\* C10: extractTablesFromHtml returns one Table per top-level table element
\* that has a row, in document order; its rows are the element's own rows
\* with the trimmed text of their cells, its column count the cell count of
\* its first row; a table nested in a cell gives no further Table and no
\* further rows; the table of 2 rows and 3 columns gives rows = 2 and
\* columns = 3.  A row counts when it has a cell.
C10_OneTablePerTopLevelTable ==
    pc = "extracted" =>
        LET top == topLevelTables(dom, 1)
        IN  /\ Len(htmlTables) = Len(top)
            /\ \A k \in 1..Len(top) :
                  LET own == ownRowsOf(dom, top[k])
                      tbl == htmlTables[k]
                  IN  /\ tbl.rows = Len(own)
                      /\ Len(tbl.data) = Len(own)
                      /\ tbl.columns = Len(own[1])
                      /\ \A r \in 1..Len(own) :
                            tbl.data[r] =
                               [c \in 1..Len(own[r]) |->
                                  Str(trim(textContent(dom, own[r][c], 1)))]
            /\ dom = TwoByThree =>
                  /\ Len(htmlTables) = 1
                  /\ htmlTables[1].rows = 2
                  /\ htmlTables[1].columns = 3

\* C11: in every list of Tables returned for one document the k-th Table has
\* index k: the list extractTablesFromHtml returns, also after a table
\* element without rows was skipped, and the list detectTablesInText builds,
\* also after a candidate was dropped.
C11_IndexIsPosition ==
    /\ pc = "extracted" =>
          \A k \in 1..Len(htmlTables) : htmlTables[k].index = k
    /\ proc = "DocumentProcessor" =>
          /\ \A k \in 1..Len(tables) : tables[k].index = k
          /\ \A k \in 1..Len(result.tables) : result.tables[k].index = k

-----------------------------------------------------------------------------
(* Properties of the rendering in formatForClaude (SpecRender).            *)

\* A table the grid can be drawn for: at least one row, every row with the
\* same number of cells, at least one, and every cell a string.
gridCanBeDrawn(data) ==
    /\ data # <<>>
    /\ Len(data[1]) >= 1
    /\ \A r \in 1..Len(data) : Len(data[r]) = Len(data[1])
    /\ allStrings(data)

\* C12: with the enhanced-text output format formatForClaude renders every
\* table whose cells are all strings as a bordered grid, which starts with
\* the top left corner glyph, and not as the " | "-joined fallback.
C12_GridInEnhancedText ==
    (pc = "rendered" /\ proc = "DocumentProcessor"
        /\ options.outputFormat = "enhanced-text"
        /\ gridCanBeDrawn(tableRows)) =>
        /\ ~rendered.threw
        /\ rendered.value # <<>>
        /\ rendered.value[1] = boxTopLeft
        /\ rendered.value # fallbackText(tableRows)

-----------------------------------------------------------------------------
(* Properties of the runs of table-like lines (Spec).                      *)

\* The verdict of the segmenter's own test on line k, taken on the trimmed
\* line as both segmenters do.
tableLikeAt(k) ==
    IF proc = "PDFProcessor"
    THEN isTableRow(trim(lines[k]))
    ELSE isTableLike(trim(lines[k]))

\* The maximal runs of 2 or more consecutive table-like lines from line k
\* on, each as <<first, last>>; `start` is the first line of the run line k
\* continues, 0 when line k - 1 is not table-like.
RECURSIVE longRuns(_, _)
longRuns(k, start) ==
    LET closed == IF start > 0 /\ k - start >= 2
                  THEN << <<start, k - 1>> >> ELSE <<>>
    IN  IF k > Len(lines) THEN closed
        ELSE IF tableLikeAt(k)
             THEN longRuns(k + 1, IF start > 0 THEN start ELSE k)
             ELSE closed \o longRuns(k + 1, 0)

\* The row the segmenter makes of line k, and the rows of a Table.
rowOfLine(k) ==
    IF proc = "PDFProcessor"
    THEN parseTableRow(trim(lines[k]))
    ELSE splitCells(trim(lines[k]))

rowsOfTable(tbl) == IF proc = "PDFProcessor" THEN tbl ELSE tbl.data

\* C13: the Tables a segmenter returns are, in order, the maximal runs of 2
\* or more consecutive table-like lines of the text, and the rows of each
\* are the rows of the lines of its run, one per line and in order; a run
\* at the first line and a run at the last line are captured.
C13_TablesAreTheRuns ==
    (Segmented("PDFProcessor") \/ Segmented("DocumentProcessor")) =>
        LET runs == longRuns(1, 0)
        IN  /\ Len(result.tables) = Len(runs)
            /\ \A k \in 1..Len(runs) :
                  rowsOfTable(result.tables[k])
                     = [r \in 1..(runs[k][2] - runs[k][1] + 1) |->
                           rowOfLine(runs[k][1] + r - 1)]

-----------------------------------------------------------------------------
(* Properties of the cell parsing (Spec).                                  *)

\* s split on the runs of n or more characters of `seps`, empty pieces kept.
RECURSIVE splitOnRuns(_, _, _, _, _)
splitOnRuns(s, p, seps, n, cur) ==
    IF p > Len(s) THEN <<cur>>
    ELSE LET run == RunLength(s, p, seps)
         IN  IF run >= n
             THEN <<cur>> \o splitOnRuns(s, p + run, seps, n, <<>>)
             ELSE splitOnRuns(s, p + 1, seps, n, Append(cur, s[p]))

\* The row of a line as it stands in the input: split on single tabs with
\* the empty fragments kept when the line has a tab, else split on runs of 2
\* or more spaces with the empty fragments dropped; each fragment trimmed.
rowOfOriginal(ln) ==
    IF \E p \in 1..Len(ln) : ln[p] = "\t"
    THEN strCells(trimAll(split(ln, "\t")))
    ELSE strCells(filterNonEmpty(trimAll(splitOnRuns(ln, 1, {" "}, 2, <<>>))))

\* C14: the rows of the Tables detectTables returns are, in order, the rows
\* of the lines absorbed into a table, each computed from the line as it
\* stands in the input, not trimmed: an empty cell before a leading tab and
\* after a trailing tab is kept.
C14_RowsFromOriginalLines ==
    Segmented("PDFProcessor") =>
        LET absorbed == linesWithFate({"table"}, 1)
            rows == flatten(result.tables)
        IN  /\ Len(rows) = Len(absorbed)
            /\ \A k \in 1..Len(rows) : rows[k] = rowOfOriginal(absorbed[k])

-----------------------------------------------------------------------------
(* Properties of the scan of detectTables (Spec).                          *)

\* The lines processed so far whose fate is in `fates`, trimmed as line 89
\* trims them, in order.
RECURSIVE processedWithFate(_, _)
processedWithFate(fates, k) ==
    IF k > Len(fate) THEN <<>>
    ELSE (IF fate[k] \in fates THEN <<trim(lines[k])>> ELSE <<>>)
         \o processedWithFate(fates, k + 1)

\* The lines of ls, each followed by a newline.
RECURSIVE eachWithNewline(_)
eachWithNewline(ls) ==
    IF ls = <<>> THEN <<>>
    ELSE Head(ls) \o <<"\n">> \o eachWithNewline(Tail(ls))

\* C15: after any prefix of the lines has been processed by the scan of
\* detectTables, every processed line is in exactly one of four places: the
\* rows of a finalized table, the accumulator, the residual text, or a
\* discarded candidate of a single line.  The finalized tables, the
\* accumulator and the residual text hold exactly the lines so recorded, in
\* order (a line being taken trimmed, as the scan reads it); the accumulator
\* is empty whenever the scanner is outside a table; a line that is not
\* table-like is always in the residual text; a discarded line is a
\* table-like line between lines that are not.
C15_EveryLineInOnePlace ==
    (proc = "PDFProcessor" /\ pc = "detectTables") =>
        /\ Len(fate) = i
        /\ \A k \in 1..i :
              fate[k] \in {"table", "accumulator", "residual", "discarded"}
        /\ flatten(tables) = processedWithFate({"table"}, 1)
        /\ \A k \in 1..Len(tables) : Len(tables[k]) >= 2
        /\ currentTable = processedWithFate({"accumulator"}, 1)
        /\ textWithoutTables
              = eachWithNewline(processedWithFate({"residual"}, 1))
        /\ ~inTable => currentTable = <<>>
        /\ inTable => (i >= 1 /\ fate[i] = "accumulator")
        /\ \A k \in 1..i :
              /\ ~isTableRow(trim(lines[k])) <=> fate[k] = "residual"
              /\ fate[k] = "accumulator" =>
                    \A j \in k..i : fate[j] = "accumulator"
              /\ fate[k] = "discarded" =>
                    /\ k = 1 \/ fate[k - 1] = "residual"
                    /\ k < i /\ fate[k + 1] = "residual"

\* The scan has read the whole text, outside a table, having finalized a
\* table, discarded a candidate of a single line and appended lines to the
\* residual text.
C15_Witness ==
    /\ proc = "PDFProcessor"
    /\ pc = "detectTables"
    /\ i = Len(lines)
    /\ ~inTable
    /\ Len(tables) >= 1
    /\ textWithoutTables # <<>>
    /\ \E k \in 1..i : fate[k] = "discarded"

-----------------------------------------------------------------------------
(* DocumentProcessor.processDocument and the extractors it calls.          *)

\* A rejection or an exception carrying an Error with a message.
Failed(message) == [threw |-> TRUE, value |-> <<>>, message |-> message]

\* String.prototype.lastIndexOf(c), 1-based; 0 when c does not occur.
lastIndexOf(s, c) ==
    LET ps == {p \in 1..Len(s) : s[p] = c}
    IN  IF ps = {} THEN 0 ELSE CHOOSE p \in ps : \A q \in ps : q <= p

\* String.prototype.toLowerCase on the letters the paths use in upper case.
lowerCase == ("D" :> "d") @@ ("F" :> "f") @@ ("P" :> "p")
toLowerCase(s) ==
    [k \in 1..Len(s) |->
        IF s[k] \in DOMAIN lowerCase THEN lowerCase[s[k]] ELSE s[k]]

\* path.basename(p), path.extname(p) and path.basename(p, path.extname(p))
basename(p) == SubSeq(p, lastIndexOf(p, "/") + 1, Len(p))

extname(p) ==
    LET base == basename(p)
        dot == lastIndexOf(base, ".")
    IN  IF dot <= 1 THEN <<>> ELSE SubSeq(base, dot, Len(base))

basenameWithoutExt(p) ==
    SubSeq(basename(p), 1, Len(basename(p)) - Len(extname(p)))

\* detectTablesInText as one call: the loop over the lines from the k-th on
\* and the table at the end of the document.
RECURSIVE scanText(_, _, _, _, _)
scanText(ls, k, inside, candidate, tbls) ==
    LET closed == IF inside /\ keepsCandidate(candidate)
                  THEN pushTable(tbls, candidate) ELSE tbls
    IN  IF k > Len(ls) THEN closed
        ELSE LET ln == trim(ls[k])
                 cells == splitCells(ln)
                 opened == IF inside THEN candidate ELSE <<>>
             IN  IF isTableLike(ln)
                 THEN scanText(ls, k + 1, TRUE,
                               IF Len(cells) > MinCells
                               THEN Append(opened, cells) ELSE opened,
                               tbls)
                 ELSE scanText(ls, k + 1, FALSE, <<>>, closed)

detectTablesInText(chars) == scanText(split(chars, "\n"), 1, FALSE, <<>>, <<>>)

\* cell.trim().replace(/^"|"$/g, '')
stripQuotes(chars) ==
    LET s == trim(chars)
        t == IF s # <<>> /\ s[1] = "\"" THEN Tail(s) ELSE s
    IN  IF t # <<>> /\ t[Len(t)] = "\"" THEN SubSeq(t, 1, Len(t) - 1) ELSE t

\* parseSpreadsheetText: the non-blank lines split on commas, as one table;
\* Math.max of no row lengths is -Infinity.
parseSpreadsheetText(chars) ==
    LET ls == filterNonBlank(split(chars, "\n"))
        data == [r \in 1..Len(ls) |->
                    LET cells == split(ls[r], ",")
                    IN  [c \in 1..Len(cells) |-> Str(stripQuotes(cells[c]))]]
    IN  <<[index |-> 1,
           rows |-> Len(data),
           columns |-> IF data = <<>> THEN "-Infinity" ELSE maxRowLength(data),
           data |-> data]>>

\* cheerio.load(html) for markup made of table, tr, td and th tags and text:
\* the elements in document order, each under the innermost element open
\* when its tag is read; text goes to the innermost open element.  `open` is
\* the stack of the open elements, innermost first.
tagNamed(name) ==
    IF name = <<"t", "a", "b", "l", "e">> THEN "table"
    ELSE IF name = <<"t", "r">> THEN "tr"
    ELSE IF name = <<"t", "d">> THEN "td"
    ELSE IF name = <<"t", "h">> THEN "th"
    ELSE "other"

RECURSIVE parseHtml(_, _, _, _)
parseHtml(html, p, open, d) ==
    IF p > Len(html) THEN d
    ELSE IF html[p] = "<"
    THEN LET close == CHOOSE q \in p..Len(html) :
                          /\ html[q] = ">"
                          /\ \A j \in p..(q - 1) : html[j] # ">"
             name == SubSeq(html, p + 1, close - 1)
         IN  IF name # <<>> /\ name[1] = "/"
             THEN parseHtml(html, close + 1,
                            IF open = <<>> THEN open ELSE Tail(open), d)
             ELSE parseHtml(html, close + 1, <<Len(d) + 1>> \o open,
                            Append(d, [tag |-> tagNamed(name),
                                       parent |-> IF open = <<>> THEN 0
                                                  ELSE open[1],
                                       text |-> <<>>]))
    ELSE parseHtml(html, p + 1, open,
                   IF open = <<>> THEN d
                   ELSE [d EXCEPT ![open[1]].text = Append(@, html[p])])

load(html) == parseHtml(html, 1, <<>>, <<>>)

\* The result processDocument starts from (lines 27 to 34); the MIME type
\* and the metadata, which only the report header shows, are left out.
initialResult(filePath) ==
    [originalPath |-> filePath,
     extractedText |-> <<>>,
     tables |-> <<>>,
     processingMethod |-> "textract"]

\* What the libraries give for one file: `extract` is the outcome of
\* textractExtract, `mammoth` that of mammoth.convertToHtml, and
\* libraryThrows tells whether markdownTable throws.
processGeneric(res, env) ==
    IF env.extract.threw THEN env.extract
    ELSE Returned([res EXCEPT !.extractedText = env.extract.value,
                              !.processingMethod = "textract-generic"])

processPdf(res, env, opts) ==
    IF env.extract.threw THEN env.extract
    ELSE Returned([res EXCEPT
            !.extractedText = env.extract.value,
            !.processingMethod = "textract-pdf",
            !.tables = IF opts.extractTables
                       THEN detectTablesInText(env.extract.value) ELSE @])

processSpreadsheet(res, env, opts) ==
    IF env.extract.threw THEN env.extract
    ELSE Returned([res EXCEPT
            !.extractedText = env.extract.value,
            !.processingMethod = "textract-spreadsheet",
            !.tables = IF opts.extractTables
                       THEN parseSpreadsheetText(env.extract.value) ELSE @])

\* processDocx: a failure of mammoth, or of textractExtract after it, is
\* caught and answered by processGeneric on the result as it then stands.
processDocx(res, env, opts) ==
    IF env.mammoth.threw THEN processGeneric(res, env)
    ELSE LET html == env.mammoth.value
             converted ==
                [res EXCEPT
                    !.extractedText = html,
                    !.processingMethod = "mammoth",
                    !.tables = IF opts.extractTables
                               THEN extractTablesFromHtml(load(html)) ELSE @]
         IN  IF env.extract.threw THEN processGeneric(converted, env)
             ELSE Returned([originalPath |-> converted.originalPath,
                            extractedText |-> converted.extractedText,
                            tables |-> converted.tables,
                            processingMethod |-> converted.processingMethod,
                            fallbackText |-> env.extract.value])

\* The message of the TypeError a failing call of markdownTable raises.
LibraryMessage == "markdownTable failed"

withClaudeReady(res, claudeReady) ==
    [f \in DOMAIN res \cup {"claudeReady"} |->
        IF f = "claudeReady" THEN claudeReady ELSE res[f]]

processDocument(filePath, env, opts) ==
    LET fileExtension == toLowerCase(extname(filePath))
        res == initialResult(filePath)
        extracted ==
            IF fileExtension = <<".", "d", "o", "c", "x">>
            THEN processDocx(res, env, opts)
            ELSE IF fileExtension = <<".", "p", "d", "f">>
            THEN processPdf(res, env, opts)
            ELSE IF fileExtension \in {<<".", "x", "l", "s", "x">>,
                                       <<".", "x", "l", "s">>}
            THEN processSpreadsheet(res, env, opts)
            ELSE processGeneric(res, env)
    IN  IF extracted.threw THEN extracted
        ELSE LET claudeReady == formatForClaude(extracted.value,
                                                opts.outputFormat,
                                                env.libraryThrows)
             IN  IF claudeReady.threw THEN Failed(LibraryMessage)
                 ELSE Returned(withClaudeReady(extracted.value,
                                               claudeReady.value))

-----------------------------------------------------------------------------
(* DocumentProcessor.processMultipleFiles and DocumentProcessor.saveResults *)
(* as the process command runs them: the files in order, then the saving.  *)

\* processMultipleFiles and saveResults are run on at most MaxFiles paths.
MaxFiles == 2

\* "a.pdf", "d/a.PDF", "b.docx", "c.xls" and "e"
FilePaths ==
    { <<"a", ".", "p", "d", "f">>,
      <<"d", "/", "a", ".", "P", "D", "F">>,
      <<"b", ".", "d", "o", "c", "x">>,
      <<"c", ".", "x", "l", "s">>,
      <<"e">> }

\* "Q1   1   abcd,\"x\"\nQ1   1   abcd,\"x\"": two lines that are table-like
\* for detectTablesInText and hold two comma-separated values each.
BatchLine ==
    <<"Q", "1">> \o Gap3 \o <<"1">> \o Gap3
        \o <<"a", "b", "c", "d", ",", "\"", "x", "\"">>
BatchText == BatchLine \o <<"\n">> \o BatchLine

\* "<table><tr><td>a</td></tr></table>"
HtmlOneCell ==
    <<"<", "t", "a", "b", "l", "e", ">", "<", "t", "r", ">",
      "<", "t", "d", ">", "a", "<", "/", "t", "d", ">",
      "<", "/", "t", "r", ">", "<", "/", "t", "a", "b", "l", "e", ">">>

\* What the libraries can give for one file, for the calls its branch of
\* processDocument makes: textract extracts the text or rejects; mammoth,
\* called for a .docx file, converts or fails; markdownTable, called with
\* the markdown output format, returns or throws.
Environments(filePath, opts) ==
    [extract : {Failed("ENOENT"), Returned(BatchText)},
     mammoth : IF toLowerCase(extname(filePath)) = <<".", "d", "o", "c", "x">>
               THEN {Thrown, Returned(HtmlOneCell)} ELSE {Thrown},
     libraryThrows : IF opts.outputFormat = "markdown"
                     THEN BOOLEAN ELSE {FALSE}]

\* the try of lines 330 to 339 without its catch
rethrowFailure(filePath, outcome) == outcome

\* The try and catch of lines 330 to 339: the result of processDocument, or
\* the entry pushed for the file when it throws.
catchFailure(filePath, outcome) ==
    IF outcome.threw
    THEN Returned([originalPath |-> filePath,
                   error |-> outcome.message,
                   success |-> FALSE])
    ELSE outcome

\* if (result.error): the field is there and is not the empty string
hasError(res) == "error" \in DOMAIN res /\ res.error # ""

InitBatch ==
    /\ pc = "processMultipleFiles"
    /\ proc = "DocumentProcessor"
    /\ options \in [extractTables : BOOLEAN,
                    outputFormat : {"enhanced-text", "markdown"}]
    /\ filePaths \in UNION { [1..n -> FilePaths] : n \in 0..MaxFiles }
    /\ results = <<>> /\ environments = <<>>
    /\ saveIndex = 0 /\ written = <<>>
    /\ text = <<>> /\ lines = <<>> /\ i = 0 /\ currentTable = <<>>
    /\ tables = <<>> /\ textWithoutTables = <<>> /\ inTable = FALSE
    /\ fate = <<>> /\ result = [tables |-> <<>>] /\ report = Returned(<<>>)
    /\ IdleRow /\ IdleFmt /\ IdleHtml

\* One iteration of the for loop of processMultipleFiles; `environments`
\* records what the libraries gave for each file (bookkeeping).
ProcessFile ==
    /\ pc = "processMultipleFiles"
    /\ Len(environments) < Len(filePaths)
    /\ LET filePath == filePaths[Len(environments) + 1]
       IN  \E env \in Environments(filePath, options) :
              LET pushed == catchFailure(filePath,
                                processDocument(filePath, env, options))
              IN  /\ environments' = Append(environments, env)
                  /\ IF pushed.threw
                     THEN pc' = "rejected" /\ UNCHANGED results
                     ELSE pc' = pc /\ results' = Append(results, pushed.value)
    /\ UNCHANGED <<filePaths, saveIndex, written>>
    /\ UNCHANGED <<rowVars, segVars, fmtVars, htmlVars>>

\* return results
ProcessMultipleFilesReturn ==
    /\ pc = "processMultipleFiles"
    /\ Len(environments) = Len(filePaths)
    /\ pc' = "processed"
    /\ UNCHANGED <<rowVars, segVars, fmtVars, htmlVars, batchVars>>

\* saveResults(results, outputDir): fs.ensureDir makes the directory or
\* rejects.
SaveResultsBegin ==
    /\ pc = "processed"
    /\ \E made \in BOOLEAN :
          pc' = IF made THEN "saveResults" ELSE "saveRejected"
    /\ saveIndex' = 0
    /\ UNCHANGED <<filePaths, results, environments, written>>
    /\ UNCHANGED <<rowVars, segVars, fmtVars, htmlVars>>

Suffix(kind) ==
    IF kind = "text"
    THEN <<"_", "e", "n", "h", "a", "n", "c", "e", "d", ".", "t", "x", "t">>
    ELSE <<"_", "d", "a", "t", "a", ".", "j", "s", "o", "n">>

\* fs.writeFile(path, data) for result number n (bookkeeping) of the list
fileWritten(n, kind, res) ==
    [result |-> n,
     path |-> basenameWithoutExt(res.originalPath) \o Suffix(kind),
     data |-> IF kind = "text" THEN res.claudeReady ELSE res]

\* One iteration of the for loop of saveResults: a result with an error is
\* passed over; for another the enhanced text is written, then the JSON
\* data; a write that fails rejects saveResults.
SaveResult ==
    /\ pc = "saveResults"
    /\ saveIndex < Len(results)
    /\ LET n == saveIndex + 1
           res == results[n]
       IN  \/ /\ hasError(res)
              /\ saveIndex' = n
              /\ UNCHANGED <<pc, written>>
           \/ /\ ~hasError(res)
              /\ \E failing \in {"none", "text", "json"} :
                    /\ written' =
                          written
                          \o (IF failing = "text" THEN <<>>
                              ELSE <<fileWritten(n, "text", res)>>)
                          \o (IF failing = "none"
                              THEN <<fileWritten(n, "json", res)>> ELSE <<>>)
                    /\ pc' = IF failing = "none" THEN pc ELSE "saveRejected"
                    /\ saveIndex' = IF failing = "none" THEN n ELSE saveIndex
    /\ UNCHANGED <<filePaths, results, environments>>
    /\ UNCHANGED <<rowVars, segVars, fmtVars, htmlVars>>

\* the end of the loop of saveResults
SaveResultsReturn ==
    /\ pc = "saveResults"
    /\ saveIndex = Len(results)
    /\ pc' = "saved"
    /\ UNCHANGED <<rowVars, segVars, fmtVars, htmlVars, batchVars>>

NextBatch ==
    \/ ProcessFile
    \/ ProcessMultipleFilesReturn
    \/ SaveResultsBegin
    \/ SaveResult
    \/ SaveResultsReturn

SpecBatch == InitBatch /\ [][NextBatch]_vars


-----------------------------------------------------------------------------
(* Properties of the batch processing (SpecBatch).                         *)

failed(res) == "error" \in DOMAIN res

\* The numbers of the results without an error field, each twice (its text
\* file, then its data file), from result k on.
RECURSIVE expectedWrites(_)
expectedWrites(k) ==
    IF k > Len(results) THEN <<>>
    ELSE (IF failed(results[k]) THEN <<>> ELSE <<k, k>>)
         \o expectedWrites(k + 1)

\* C16: processMultipleFiles never rejects and returns exactly one result
\* per path, in the order of the paths; the result of a file is what
\* processDocument gives for that file alone, whatever became of the files
\* before it, and when processDocument fails it is the entry {originalPath,
\* error, success: false} with the message of the failure; saveResults
\* writes nothing for a result with an error field and, when it completes,
\* has written the text and the data of every other result, in order.
C16_OneResultPerFile ==
    /\ pc # "rejected"
    /\ Len(results) = Len(environments)
    /\ Len(results) <= Len(filePaths)
    /\ pc \in {"processed", "saveResults", "saved", "saveRejected"} =>
          Len(results) = Len(filePaths)
    /\ \A k \in 1..Len(results) :
          LET alone == processDocument(filePaths[k], environments[k], options)
          IN  /\ results[k].originalPath = filePaths[k]
              /\ failed(results[k]) <=> alone.threw
              /\ alone.threw =>
                    results[k] = [originalPath |-> filePaths[k],
                                  error |-> alone.message,
                                  success |-> FALSE]
              /\ ~alone.threw => results[k] = alone.value
    /\ \A w \in 1..Len(written) :
          /\ ~failed(results[written[w].result])
          /\ written[w].result <= saveIndex + 1
    /\ pc = "saved" =>
          /\ [w \in 1..Len(written) |-> written[w].result] = expectedWrites(1)
          /\ \A w \in 1..Len(written) :
                written[w].data =
                    IF w % 2 = 1
                    THEN results[written[w].result].claudeReady
                    ELSE results[written[w].result]

\* Two files were processed, the first failed and the second did not, and
\* saveResults has completed, having written the two files of the second.
C16_Witness ==
    /\ pc = "saved"
    /\ Len(results) = 2
    /\ failed(results[1])
    /\ ~failed(results[2])
    /\ Len(written) = 2

=============================================================================
